---- MODULE Spec2Model ----
(***************************************************************************)
(* Model of the tracking server: the action recorder (POST /v1/actions,    *)
(* POST /track) and the analytics aggregator (GET /v1/analytics/:userId)   *)
(* on top of a MongoDB store reached through mongoose.                     *)
(*                                                                         *)
(* The repository holds five versions of the server.  One of them runs;    *)
(* which one is fixed in Init and kept in the variable variant:            *)
(*   "index_v1"  src/index.js lines 1-237   (API key, userId minlength 4)  *)
(*   "index_v2"  src/index.js lines 239-469                                *)
(*   "part_000"  src/unnamed/part_000                                      *)
(*   "part_001"  src/unnamed/part_001       (POST /track only)             *)
(*   "part_002"  src/unnamed/part_002       (one collection per user)      *)
(*                                                                         *)
(* A handler runs synchronously up to its await; the store operation it    *)
(* awaits completes in a later step, so requests interleave at the await.  *)
(***************************************************************************)
EXTENDS Integers, Sequences, FiniteSets, TLC

VARIABLES
  variant,      \* which version of the server runs
  nodeEnv,      \* process.env.NODE_ENV
  now,          \* Date.now(), in seconds
  ticks,        \* how often the clock has advanced
  store,        \* the documents held by the database
  collections,  \* the names of the collections that exist in the database
  models,       \* mongoose.models: the names of the registered per-user models
  inflight,     \* the requests suspended at their await
  nextRid,      \* the number of the next request
  nextId,       \* the next ObjectId
  resp,         \* the response sent last, with the request it answers
  lastAgg,      \* the last successful analytics answer
  prevAgg,      \* the one before it, when no track request completed between
  writesSince,  \* has a track request completed since lastAgg
  connection,   \* the initial mongoose.connect: pending, resolved or rejected
  exitCode      \* the code the process exited with, Running while it runs

vars == <<variant, nodeEnv, now, ticks, store, collections, models,
          inflight, nextRid, nextId, resp, lastAgg, prevAgg, writesSince,
          connection, exitCode>>

(***************************************************************************)
(* Bounds of the model.                                                    *)
(***************************************************************************)
MaxRequests == 2
MaxInflight == 2
MaxTicks == 2

(***************************************************************************)
(* Values.                                                                 *)
(***************************************************************************)
Variants == {"index_v1", "index_v2", "part_000", "part_001", "part_002"}
SharedCollection == {"index_v1", "index_v2", "part_000", "part_001"}
HandlerChecksAction == {"index_v1", "index_v2", "part_000"}
HasAnalytics == {"index_v1", "index_v2", "part_000", "part_002"}

\* JavaScript undefined for a string-valued field (a reserved marker, never a
\* value a caller sends), and null for a date-valued field (dates are
\* non-negative).
Undefined == "<undefined>"
Null == 0 - 1

\* The exit code of a process that has not exited (exit codes are 0..255).
Running == 0 - 1

\* The versions that install a SIGTERM handler.
HandlesSigterm == {"index_v1", "index_v2", "part_000", "part_002"}

\* Time is counted in seconds, not in the code's milliseconds: 30 days in
\* milliseconds (2 592 000 000) exceed the 32-bit integers of the model
\* checker, while JavaScript numbers hold them exactly.  A day, the code's
\* 24 * 60 * 60 * 1000 ms, is 24 * 60 * 60 s.
DayMs == 24 * 60 * 60

\* The inputs requests are drawn from.
UserIds == {Undefined, "", "u1", "user1"}
Actions == {Undefined, "", "read", "write", "delete"}
BodyTimestamps == {Null, 0}
AnalyticsUserIds == {"u1", "user1"}
NoPeriod == [present |-> FALSE, s |-> <<>>]
Periods ==
  {NoPeriod} \cup
  { [present |-> TRUE, s |-> t] :
      t \in { <<"1">>, <<"0">>, <<"-", "1">>, <<"a", "b">>, <<"2", "d">>,
              <<" ", "1">> } }
TickSteps == {DayMs, 30 * DayMs}

NoDoc == [id |-> 0, coll |-> "", userId |-> "", action |-> "", timestamp |-> 0]
NoReq == [userId |-> "", action |-> "", period |-> NoPeriod]
NoData == << >>

(***************************************************************************)
(* validateAPIKey: in production a request whose X-API-Key differs from    *)
(* API_KEY is answered 401 and the handler is not run.  Only index.js      *)
(* (first version) installs it.                                            *)
(***************************************************************************)
validateAPIKey(v, env, req) ==
  ~(v = "index_v1" /\ env = "production" /\ ~req.apiKeyOk)

\* !x for a string-or-undefined value x
Falsy(x) == x = Undefined \/ x = ""

(***************************************************************************)
(* The handler's own validation of a track request body.                   *)
(***************************************************************************)
\* The two checks in the other order.
TrackValidateSwapped(v, body) ==
  IF v \in HandlerChecksAction /\ body.action \notin {"read", "write"}
    THEN "InvalidActionType"
  ELSE IF Falsy(body.userId) \/ Falsy(body.action) THEN "MissingField"
  ELSE "ok"

TrackValidate(v, body) ==
  IF Falsy(body.userId) \/ Falsy(body.action) THEN "MissingField"
  ELSE IF v \in HandlerChecksAction /\ body.action \notin {"read", "write"}
    THEN "InvalidActionType"
  ELSE "ok"

(***************************************************************************)
(* createUserModel: the per-user collection name, and the registration of  *)
(* its model.  Registering a model with an indexed path makes mongoose     *)
(* create the collection in the database.                                  *)
(***************************************************************************)
CollectionName(userId) == "user_" \o userId \o "_actions"

CollectionOf(v, userId) ==
  IF v \in SharedCollection THEN "useractions" ELSE CollectionName(userId)

createUserModel(v, userId, registered) ==
  IF v = "part_002" THEN registered \cup {CollectionName(userId)} ELSE registered

(***************************************************************************)
(* new UserAction({ userId, action }) / new UserAction({ action }): the    *)
(* document gets its _id and its default timestamp Date.now() when it is   *)
(* constructed; body.timestamp is not passed on.                           *)
(***************************************************************************)
NewUserAction(v, body, t, id) ==
  [id |-> id,
   coll |-> CollectionOf(v, body.userId),
   userId |-> IF v = "part_002" THEN Undefined ELSE body.userId,
   action |-> body.action,
   timestamp |-> t]

(***************************************************************************)
(* Schema validation run by save() before the insert is sent.              *)
(***************************************************************************)
MinLength == 4
MaxLength == 100

SchemaValid(v, doc) ==
  CASE v = "index_v1" ->
         /\ ~Falsy(doc.userId)
         /\ Len(doc.userId) >= MinLength
         /\ Len(doc.userId) <= MaxLength
         /\ doc.action \in {"read", "write"}
    [] v \in {"index_v2", "part_000"} ->
         /\ ~Falsy(doc.userId)
         /\ doc.action \in {"read", "write"}
    [] v = "part_001" -> TRUE
    [] v = "part_002" -> doc.action \in {"read", "write"}

(***************************************************************************)
(* parseInt(period): leading white space is skipped, then an optional      *)
(* sign, then the longest run of decimal digits; NaN when there is none.   *)
(* A string is a tuple of one-character strings.                           *)
(***************************************************************************)
Digits == <<"0", "1", "2", "3", "4", "5", "6", "7", "8", "9">>
IsDigit(c) == \E i \in 1..10 : Digits[i] = c
DigitVal(c) == (CHOOSE i \in 1..10 : Digits[i] = c) - 1
NaN == [nan |-> TRUE, n |-> 0]
Num(n) == [nan |-> FALSE, n |-> n]

RECURSIVE SkipSpace(_)
SkipSpace(s) == IF s # <<>> /\ Head(s) = " " THEN SkipSpace(Tail(s)) ELSE s

RECURSIVE DigitRun(_, _)
\* the value of the longest digit prefix of s, continuing from acc
DigitRun(s, acc) ==
  IF s # <<>> /\ IsDigit(Head(s))
    THEN DigitRun(Tail(s), acc * 10 + DigitVal(Head(s)))
    ELSE acc

parseInt(str) ==
  LET s == SkipSpace(str)
      neg == s # <<>> /\ Head(s) = "-"
      t == IF s # <<>> /\ Head(s) \in {"-", "+"} THEN Tail(s) ELSE s
  IN IF t = <<>> \/ ~IsDigit(Head(t)) THEN NaN
     ELSE Num(IF neg THEN 0 - DigitRun(t, 0) ELSE DigitRun(t, 0))

\* const { period = '30d' } = req.query   ('30' in the later versions)
DefaultPeriod(v) == IF v = "index_v1" THEN <<"3", "0", "d">> ELSE <<"3", "0">>

QueryPeriod(v, req) == IF req.period.present THEN req.period.s ELSE DefaultPeriod(v)

\* parseInt(period) || 30 : NaN and 0 are falsy, every other number is kept
PeriodDays(v, req) ==
  LET p == parseInt(QueryPeriod(v, req))
  IN IF p.nan \/ p.n = 0 THEN 30 ELSE p.n

\* new Date(Date.now() - periodDays * 24 * 60 * 60 * 1000)
StartDate(t, periodDays) == t - periodDays * DayMs

(***************************************************************************)
(* The aggregation pipeline: $match, $group, $project.                     *)
(***************************************************************************)
Match(v, userId, startDate, st) ==
  { e \in st :
      /\ e.coll = CollectionOf(v, userId)
      /\ (v \in SharedCollection => e.userId = userId)
      /\ e.timestamp >= startDate }

\* One accumulator per distinct action: $sum: 1 and $max: '$timestamp',
\* fed one document at a time.
RECURSIVE Accumulate(_, _)
Accumulate(docs, acc) ==
  IF docs = {} THEN acc
  ELSE LET e == CHOOSE x \in docs : TRUE
           old == IF e.action \in DOMAIN acc
                    THEN acc[e.action]
                    ELSE [count |-> 0, lastActivity |-> Null]
           new == [count |-> old.count + 1,
                   lastActivity |-> IF e.timestamp > old.lastActivity
                                      THEN e.timestamp
                                      ELSE old.lastActivity]
       IN Accumulate(docs \ {e},
                     [a \in DOMAIN acc \cup {e.action} |->
                        IF a = e.action THEN new ELSE acc[a]])

Group(matched) ==
  LET acc == Accumulate(matched, << >>)
  IN { [_id |-> a, count |-> acc[a].count, lastActivity |-> acc[a].lastActivity] :
         a \in DOMAIN acc }

\* { _id: 0, action: '$_id', count: 1, lastActivity: 1 }; part_002 groups and
\* projects the count alone.
Project(v, g) ==
  IF v = "part_002"
    THEN [action |-> g._id, count |-> g.count]
    ELSE [action |-> g._id, count |-> g.count, lastActivity |-> g.lastActivity]

\* The order in which $group emits its groups is not specified.
Orderings(S) ==
  { q \in [1..Cardinality(S) -> S] : \A x \in S : \E i \in DOMAIN q : q[i] = x }

AggregateResults(v, userId, startDate, st) ==
  Orderings({ Project(v, g) : g \in Group(Match(v, userId, startDate, st)) })

(***************************************************************************)
(* Formatting the response from the stats array.                           *)
(***************************************************************************)
Summary(count, lastActivity) == [count |-> count, lastActivity |-> lastActivity]
JNumber(n) == [number |-> n]

SetKey(obj, k, val) == [x \in DOMAIN obj \cup {k} |-> IF x = k THEN val ELSE obj[x]]

InitialResult(v) ==
  IF v = "part_002"
    THEN [k \in {"read", "write"} |-> JNumber(0)]
    ELSE [k \in {"read", "write"} |-> Summary(0, Null)]

StatValue(v, stat) ==
  IF v = "part_002" THEN JNumber(stat.count)
  ELSE Summary(stat.count, stat.lastActivity)

RECURSIVE FormatFrom(_, _, _)
FormatFrom(v, stats, acc) ==
  IF stats = <<>> THEN acc
  ELSE FormatFrom(v, Tail(stats),
                  SetKey(acc, Head(stats).action, StatValue(v, Head(stats))))

\* A formatting that takes the first group for read and the second for write.
FormatResultByPosition(v, stats) ==
  [k \in {"read", "write"} |->
     LET i == IF k = "read" THEN 1 ELSE 2
     IN IF i \in DOMAIN stats THEN StatValue(v, stats[i])
        ELSE InitialResult(v)[k]]

FormatResult(v, stats) == FormatFrom(v, stats, InitialResult(v))

(***************************************************************************)
(* Model initialisation creates the collection of a model whose schema     *)
(* declares an index (index: true).                                        *)
(***************************************************************************)
EnsureCollections(v, registered, colls) ==
  IF v = "part_002" THEN colls \cup registered ELSE colls

\* A catch block that sends the operation once more before it answers.
CatchRetryOnce(p) == IF p.calls < 1 THEN "retry" ELSE "respond500"

\* What the catch block of a handler does with a rejected store operation:
\* it answers 500; it does not send the operation again.
Catch(p) == "respond500"

\* The documents held after save() resolved or rejected.  The database is
\* taken to apply an insert exactly when it acknowledges it.
AfterSave(st, doc, ok) == IF ok THEN st \cup {doc} ELSE st

(***************************************************************************)
(* Responses.                                                              *)
(***************************************************************************)
NoAgg == [valid |-> FALSE, userId |-> "", periodDays |-> 0, startDate |-> 0,
          data |-> NoData]

Response(rid, kind, req, status, error) ==
  [rid |-> rid, kind |-> kind, req |-> req, status |-> status, error |-> error,
   data |-> NoData, start |-> now, doc |-> NoDoc, calls |-> 0,
   storeFailed |-> FALSE, periodDays |-> 0, startDate |-> 0]

\* What a handler keeps of a request: const { userId, action } = req.body,
\* const { userId } = req.params, const { period } = req.query.
Destructure(req) == [userId |-> req.userId, action |-> req.action,
                     period |-> req.period]

\* 200 in /track, 201 in /v1/actions
TrackSuccessStatus(v) == IF v = "part_001" THEN 200 ELSE 201

ApiKeyChoices == IF variant = "index_v1" /\ nodeEnv = "production"
                   THEN BOOLEAN ELSE {TRUE}

\* The database outlives the process.  When the server starts it is empty, or
\* it holds events that an earlier run of the same version recorded: a read
\* of user1 a day ago, and a write of user1 and a read of user2 just now.
SeedBody(u, a) == [userId |-> u, action |-> a, timestamp |-> Null,
                   period |-> NoPeriod, apiKeyOk |-> TRUE]

SeedEvents(v) ==
  { NewUserAction(v, SeedBody("user1", "read"), 0, 1),
    NewUserAction(v, SeedBody("user1", "write"), DayMs, 2),
    NewUserAction(v, SeedBody("user2", "read"), DayMs, 3) }

Init ==
  /\ variant \in Variants
  /\ nodeEnv \in IF variant = "index_v1" THEN {"production", "development"}
                 ELSE {"development"}
  /\ now = DayMs
  /\ ticks = 0
  /\ store \in {{}, SeedEvents(variant)}
  /\ collections = { e.coll : e \in store }
  /\ models = {}
  /\ inflight = {}
  /\ nextRid = 1
  /\ nextId = Cardinality(store) + 1
  /\ resp = Response(0, "none", NoReq, 0, "")
  /\ lastAgg = NoAgg
  /\ prevAgg = NoAgg
  /\ writesSince = FALSE
  /\ connection = "connecting"
  /\ exitCode = Running

\* The clock advances.
Tick(d) ==
  /\ exitCode = Running
  /\ ticks < MaxTicks
  /\ nextRid <= MaxRequests
  /\ now' = now + d
  /\ ticks' = ticks + 1
  /\ UNCHANGED <<connection, exitCode>>
  /\ UNCHANGED <<variant, nodeEnv, store, collections, models, inflight,
                 nextRid, nextId, resp, lastAgg, prevAgg, writesSince>>

(***************************************************************************)
(* POST /v1/actions (POST /track): the handler up to await newAction.save()*)
(***************************************************************************)
TrackBegin(body) ==
  /\ exitCode = Running
  /\ nextRid <= MaxRequests
  /\ Cardinality(inflight) < MaxInflight
  /\ nextRid' = nextRid + 1
  /\ IF ~validateAPIKey(variant, nodeEnv, body)
       THEN /\ resp' = Response(nextRid, "track", Destructure(body), 401,
                                "Unauthorized")
            /\ writesSince' = TRUE
            /\ UNCHANGED <<models, collections, nextId, inflight>>
     ELSE IF TrackValidate(variant, body) # "ok"
       THEN /\ resp' = Response(nextRid, "track", Destructure(body), 400,
                                TrackValidate(variant, body))
            /\ writesSince' = TRUE
            /\ UNCHANGED <<models, collections, nextId, inflight>>
     ELSE /\ models' = createUserModel(variant, body.userId, models)
          /\ collections' = IF connection = "connected"
                               THEN EnsureCollections(variant, models', collections)
                               ELSE collections
          /\ nextId' = nextId + 1
          /\ inflight' = inflight \cup
               {[rid |-> nextRid, kind |-> "track", req |-> Destructure(body),
                 doc |-> NewUserAction(variant, body, now, nextId),
                 start |-> now, calls |-> 0, periodDays |-> 0, startDate |-> 0]}
          /\ UNCHANGED <<resp, writesSince>>
  /\ UNCHANGED <<connection, exitCode>>
  /\ UNCHANGED <<variant, nodeEnv, now, ticks, store, lastAgg, prevAgg>>

\* save() rejects with a ValidationError; nothing is sent to the database.
TrackSaveInvalid(p) ==
  /\ exitCode = Running
  /\ p \in inflight /\ p.kind = "track"
  /\ ~SchemaValid(variant, p.doc)
  /\ inflight' = inflight \ {p}
  /\ resp' = [Response(p.rid, "track", p.req, 500, "InternalError")
                EXCEPT !.start = p.start, !.doc = p.doc, !.calls = p.calls]
  /\ writesSince' = TRUE
  /\ UNCHANGED <<connection, exitCode>>
  /\ UNCHANGED <<variant, nodeEnv, now, ticks, store, collections, models,
                 nextRid, nextId, lastAgg, prevAgg>>

\* The connection is up; the insert is sent and acknowledged.
TrackSaveOk(p) ==
  /\ exitCode = Running
  /\ connection = "connected"
  /\ p \in inflight /\ p.kind = "track"
  /\ SchemaValid(variant, p.doc)
  /\ store' = AfterSave(store, p.doc, TRUE)
  /\ collections' = collections \cup {p.doc.coll}
  /\ inflight' = inflight \ {p}
  /\ resp' = [Response(p.rid, "track", p.req, TrackSuccessStatus(variant), "")
                EXCEPT !.start = p.start, !.doc = p.doc, !.calls = p.calls + 1]
  /\ writesSince' = TRUE
  /\ UNCHANGED <<connection, exitCode>>
  /\ UNCHANGED <<variant, nodeEnv, now, ticks, models, nextRid, nextId,
                 lastAgg, prevAgg>>

\* The insert is sent and the database fails it, or, with no connection,
\* mongoose gives up buffering it: save() rejects.
TrackSaveFail(p) ==
  /\ exitCode = Running
  /\ p \in inflight /\ p.kind = "track"
  /\ SchemaValid(variant, p.doc)
  /\ store' = AfterSave(store, p.doc, FALSE)
  /\ IF Catch(p) = "retry"
       THEN /\ inflight' = (inflight \ {p}) \cup {[p EXCEPT !.calls = p.calls + 1]}
            /\ UNCHANGED <<resp, writesSince>>
       ELSE /\ inflight' = inflight \ {p}
            /\ resp' = [Response(p.rid, "track", p.req, 500, "InternalError")
                          EXCEPT !.start = p.start, !.doc = p.doc,
                                 !.calls = p.calls + 1, !.storeFailed = TRUE]
            /\ writesSince' = TRUE
  /\ UNCHANGED <<connection, exitCode>>
  /\ UNCHANGED <<variant, nodeEnv, now, ticks, collections, models, nextRid,
                 nextId, lastAgg, prevAgg>>

(***************************************************************************)
(* GET /v1/analytics/:userId : the handler up to await UserAction.aggregate*)
(* The route matches only a non-empty :userId.  part_001 has no such route.*)
(***************************************************************************)
AnalyticsBegin(req) ==
  /\ exitCode = Running
  /\ variant \in HasAnalytics
  /\ nextRid <= MaxRequests
  /\ Cardinality(inflight) < MaxInflight
  /\ nextRid' = nextRid + 1
  /\ IF ~validateAPIKey(variant, nodeEnv, req)
       THEN /\ resp' = Response(nextRid, "analytics", Destructure(req), 401,
                                "Unauthorized")
            /\ UNCHANGED <<models, collections, inflight>>
       ELSE /\ models' = createUserModel(variant, req.userId, models)
            /\ collections' = IF connection = "connected"
                                 THEN EnsureCollections(variant, models', collections)
                                 ELSE collections
            /\ inflight' = inflight \cup
                 {[rid |-> nextRid, kind |-> "analytics", req |-> Destructure(req),
                   doc |-> NoDoc, start |-> now, calls |-> 0,
                   periodDays |-> PeriodDays(variant, req),
                   startDate |-> StartDate(now, PeriodDays(variant, req))]}
            /\ UNCHANGED resp
  /\ UNCHANGED <<connection, exitCode>>
  /\ UNCHANGED <<variant, nodeEnv, now, ticks, store, nextId, lastAgg, prevAgg,
                 writesSince>>

\* The pipeline runs on the documents held when the database executes it.
AnalyticsOk(p) ==
  /\ exitCode = Running
  /\ connection = "connected"
  /\ p \in inflight /\ p.kind = "analytics"
  /\ inflight' = inflight \ {p}
  /\ \E stats \in AggregateResults(variant, p.req.userId, p.startDate, store) :
       resp' = [Response(p.rid, "analytics", p.req, 200, "")
                  EXCEPT !.start = p.start, !.calls = p.calls + 1,
                         !.periodDays = p.periodDays, !.startDate = p.startDate,
                         !.data = FormatResult(variant, stats)]
  /\ lastAgg' = [valid |-> TRUE, userId |-> p.req.userId,
                 periodDays |-> p.periodDays, startDate |-> p.startDate,
                 data |-> resp'.data]
  /\ prevAgg' = IF writesSince THEN NoAgg ELSE lastAgg
  /\ writesSince' = FALSE
  /\ UNCHANGED <<connection, exitCode>>
  /\ UNCHANGED <<variant, nodeEnv, now, ticks, store, collections, models,
                 nextRid, nextId>>

\* The database fails the query, or, with no connection, mongoose gives up
\* buffering it: the catch block answers 500.
AnalyticsFail(p) ==
  /\ exitCode = Running
  /\ p \in inflight /\ p.kind = "analytics"
  /\ IF Catch(p) = "retry"
       THEN /\ inflight' = (inflight \ {p}) \cup {[p EXCEPT !.calls = p.calls + 1]}
            /\ UNCHANGED resp
       ELSE /\ inflight' = inflight \ {p}
            /\ resp' = [Response(p.rid, "analytics", p.req, 500, "InternalError")
                          EXCEPT !.start = p.start, !.calls = p.calls + 1,
                                 !.storeFailed = TRUE,
                                 !.periodDays = p.periodDays,
                                 !.startDate = p.startDate]
  /\ UNCHANGED <<connection, exitCode>>
  /\ UNCHANGED <<variant, nodeEnv, now, ticks, store, collections, models,
                 nextRid, nextId, lastAgg, prevAgg, writesSince>>

(***************************************************************************)
(* A request for a path and method no route is registered for: the 404     *)
(* handler of the version, or the one built into express, answers 404.     *)
(***************************************************************************)
Unmatched ==
  /\ exitCode = Running
  /\ nextRid <= MaxRequests
  /\ nextRid' = nextRid + 1
  /\ resp' = Response(nextRid, "unmatched", NoReq, 404, "NotFound")
  /\ UNCHANGED <<connection, exitCode>>
  /\ UNCHANGED <<variant, nodeEnv, now, ticks, store, collections, models,
                 inflight, nextId, lastAgg, prevAgg, writesSince>>

(***************************************************************************)
(* mongoose.connect(...).then(...).catch(...), called once at startup.     *)
(* app.listen is called in the same synchronous run, so requests are       *)
(* accepted while the connection is pending.                               *)
(***************************************************************************)
\* The collections of the models compiled at load time whose schema declares
\* an index: mongoose creates them once the connection is up.
StaticModelCollections(v) ==
  IF v \in {"index_v1", "index_v2", "part_000"} THEN {"useractions"} ELSE {}

\* What the catch callback of mongoose.connect leaves of the process:
\* process.exit(1), except in the /track version, which only logs.
OnConnectError(v) == IF v = "part_001" THEN Running ELSE 1

\* The promise resolves; what mongoose buffered for model initialisation runs.
ConnectOk ==
  /\ exitCode = Running
  /\ connection = "connecting"
  /\ connection' = "connected"
  /\ collections' = EnsureCollections(variant, models,
                       collections \cup StaticModelCollections(variant))
  /\ UNCHANGED <<variant, nodeEnv, now, ticks, store, models, inflight,
                 nextRid, nextId, resp, lastAgg, prevAgg, writesSince,
                 exitCode>>

\* The promise rejects; the catch callback runs.
ConnectFail ==
  /\ exitCode = Running
  /\ connection = "connecting"
  /\ connection' = "failed"
  /\ exitCode' = OnConnectError(variant)
  /\ UNCHANGED <<variant, nodeEnv, now, ticks, store, collections, models,
                 inflight, nextRid, nextId, resp, lastAgg, prevAgg,
                 writesSince>>

\* process.on('SIGTERM'): server.close calls back once no request is open,
\* then the connection is closed and the process exits with code 0.
Sigterm ==
  /\ variant \in HandlesSigterm
  /\ exitCode = Running
  /\ inflight = {}
  /\ exitCode' = 0
  /\ UNCHANGED <<variant, nodeEnv, now, ticks, store, collections, models,
                 inflight, nextRid, nextId, resp, lastAgg, prevAgg,
                 writesSince, connection>>

TrackBodies ==
  { [userId |-> u, action |-> a, timestamp |-> t, period |-> NoPeriod,
     apiKeyOk |-> k] :
      u \in UserIds, a \in Actions, t \in BodyTimestamps, k \in ApiKeyChoices }

AnalyticsRequests ==
  { [userId |-> u, action |-> "", timestamp |-> Null, period |-> q,
     apiKeyOk |-> k] :
      u \in AnalyticsUserIds, q \in Periods, k \in ApiKeyChoices }

Next ==
  \/ ConnectOk
  \/ ConnectFail
  \/ Sigterm
  \/ Unmatched
  \/ \E d \in TickSteps : Tick(d)
  \/ \E body \in TrackBodies : TrackBegin(body)
  \/ \E p \in inflight : TrackSaveInvalid(p)
  \/ \E p \in inflight : TrackSaveOk(p)
  \/ \E p \in inflight : TrackSaveFail(p)
  \/ \E req \in AnalyticsRequests : AnalyticsBegin(req)
  \/ \E p \in inflight : AnalyticsOk(p)
  \/ \E p \in inflight : AnalyticsFail(p)

Spec == Init /\ [][Next]_vars

(***************************************************************************)
(* Vocabulary of the properties.                                           *)
(***************************************************************************)
\* The step sends the response to a request of this kind.
Answers(kind) == resp'.rid # resp.rid /\ resp'.kind = kind

\* The handler ran (the request was not turned away by validateAPIKey).
Handled(r) == r.status # 401

\* The user an event belongs to: its userId field, or, in the version that
\* keeps one collection per user, the user of its collection.
EventUser(e) ==
  IF e.userId # Undefined THEN e.userId
  ELSE CHOOSE u \in {"u1", "user1", "user2"} : CollectionName(u) = e.coll

\* The step is part of an analytics request: it starts one or answers one.
AnalyticsStep ==
  \/ \E p \in inflight' \ inflight : p.kind = "analytics"
  \/ Answers("analytics")

(***************************************************************************)
(* C1: a track request with a non-empty userId and action read or write,   *)
(* the store being available, is answered with success, and the store      *)
(* gains exactly one new event, with that userId and action and a          *)
(* timestamp not earlier than the start of the call, whatever timestamp    *)
(* the body carried.                                                       *)
(***************************************************************************)
C1_RecordPersistsOne ==
  [][ ( /\ Answers("track")
        /\ Handled(resp')
        /\ ~Falsy(resp'.req.userId)
        /\ resp'.req.action \in {"read", "write"}
        /\ ~resp'.storeFailed )
      => ( /\ resp'.status = TrackSuccessStatus(variant)
           /\ resp'.doc \notin store
           /\ store' = store \cup {resp'.doc}
           /\ EventUser(resp'.doc) = resp'.req.userId
           /\ resp'.doc.action = resp'.req.action
           /\ resp'.doc.timestamp >= resp'.start ) ]_vars

(***************************************************************************)
(* C2: a track request whose userId or action is empty or absent is        *)
(* answered 400 MissingField and leaves the store unchanged, also when     *)
(* its action is outside {read, write}.                                    *)
(***************************************************************************)
C2_MissingFieldFirst ==
  [][ ( /\ Answers("track")
        /\ Handled(resp')
        /\ (Falsy(resp'.req.userId) \/ Falsy(resp'.req.action)) )
      => ( /\ resp'.status = 400
           /\ resp'.error = "MissingField"
           /\ store' = store
           /\ inflight' = inflight ) ]_vars

C2_Witness ==
  /\ resp.kind = "track"
  /\ resp.req.userId = Undefined
  /\ resp.req.action = "delete"
  /\ resp.status = 400
  /\ resp.error = "MissingField"

(***************************************************************************)
(* C3: a track request with a non-empty userId and a non-empty action      *)
(* other than read and write is answered 400 InvalidActionType and leaves  *)
(* the store unchanged.                                                    *)
(***************************************************************************)
C3_InvalidActionRejected ==
  [][ ( /\ Answers("track")
        /\ Handled(resp')
        /\ ~Falsy(resp'.req.userId)
        /\ ~Falsy(resp'.req.action)
        /\ resp'.req.action \notin {"read", "write"} )
      => ( /\ resp'.status = 400
           /\ resp'.error = "InvalidActionType"
           /\ store' = store ) ]_vars

(***************************************************************************)
(* C4: every event in the store has a non-empty userId and an action that  *)
(* is read or write.                                                       *)
(***************************************************************************)
C4_StoredEventsValid ==
  \A e \in store : ~Falsy(EventUser(e)) /\ e.action \in {"read", "write"}

(***************************************************************************)
(* The reference aggregate: the events of a user with an action and a      *)
(* timestamp in the window, their number and their latest timestamp.       *)
(***************************************************************************)
RefEvents(st, userId, a, from) ==
  { e \in st : EventUser(e) = userId /\ e.action = a /\ e.timestamp >= from }

RefLast(S) ==
  IF S = {} THEN Null
  ELSE CHOOSE t \in { e.timestamp : e \in S } : \A e \in S : e.timestamp <= t

\* The start of the window of an answered analytics request: periodDays days
\* before the time the call was made.
RefWindowStart(r) == r.start - r.periodDays * DayMs

IsSummary(x) == DOMAIN x = {"count", "lastActivity"}

(***************************************************************************)
(* C5: a successful analytics answer has exactly the keys read and write,  *)
(* each a Summary {count, lastActivity}, and an action with no event of    *)
(* the user in the window has {count: 0, lastActivity: null}.              *)
(***************************************************************************)
C5_BothKeysAlways ==
  [][ (Answers("analytics") /\ resp'.status = 200)
      => ( /\ DOMAIN resp'.data = {"read", "write"}
           /\ \A k \in DOMAIN resp'.data : IsSummary(resp'.data[k])
           /\ \A k \in {"read", "write"} :
                RefEvents(store, resp'.req.userId, k, RefWindowStart(resp')) = {}
                  => resp'.data[k] = Summary(0, Null) ) ]_vars

(***************************************************************************)
(* C6: in a successful analytics answer, the Summary of each action is the *)
(* number and the latest timestamp of the stored events of that user with  *)
(* that action and a timestamp >= now - periodDays days.                   *)
(***************************************************************************)
C6_SummaryMatchesReference ==
  [][ (Answers("analytics") /\ resp'.status = 200)
      => \A a \in {"read", "write"} :
           LET S == RefEvents(store, resp'.req.userId, a, RefWindowStart(resp'))
           IN /\ a \in DOMAIN resp'.data
              /\ IsSummary(resp'.data[a])
              /\ resp'.data[a].count = Cardinality(S)
              /\ resp'.data[a].lastActivity = RefLast(S) ]_vars

(***************************************************************************)
(* C7: the window is 30 days long when the period is absent, has no        *)
(* number in it, or is zero or negative; a positive integer period is      *)
(* used as given; the window never starts in the future.                   *)
(***************************************************************************)
AllDigits(s) == s # <<>> /\ \A i \in DOMAIN s : IsDigit(s[i])

RECURSIVE Decimal(_)
Decimal(s) ==
  IF s = <<>> THEN 0
  ELSE Decimal(SubSeq(s, 1, Len(s) - 1)) * 10 + DigitVal(s[Len(s)])

NoDigit(s) == \A i \in DOMAIN s : ~IsDigit(s[i])
Negative(s) == s # <<>> /\ Head(s) = "-" /\ AllDigits(Tail(s))

C7_WindowLength ==
  (resp.kind = "analytics" /\ resp.status \in {200, 500})
    => LET q == resp.req.period
       IN /\ ~q.present => resp.periodDays = 30
          /\ (q.present /\ NoDigit(q.s)) => resp.periodDays = 30
          /\ (q.present /\ AllDigits(q.s) /\ Decimal(q.s) = 0)
               => resp.periodDays = 30
          /\ (q.present /\ Negative(q.s)) => resp.periodDays = 30
          /\ (q.present /\ AllDigits(q.s) /\ Decimal(q.s) > 0)
               => resp.periodDays = Decimal(q.s)
          /\ resp.startDate <= resp.start

(***************************************************************************)
(* C8: two successive analytics answers for the same userId and the same   *)
(* periodDays, with no track request completing between them, are equal.   *)
(***************************************************************************)
SameArguments ==
  /\ prevAgg.valid
  /\ lastAgg.valid
  /\ prevAgg.userId = lastAgg.userId
  /\ prevAgg.periodDays = lastAgg.periodDays

C8_RepeatIdentical == SameArguments => prevAgg.data = lastAgg.data

\* C8 as amended: the two answers are equal when, in addition, both calls
\* computed the same start of the window (the clock did not advance from
\* one call to the other).
C8_RepeatIdenticalSameWindow ==
  (SameArguments /\ prevAgg.startDate = lastAgg.startDate)
    => prevAgg.data = lastAgg.data

C8_Witness ==
  /\ SameArguments
  /\ prevAgg.startDate = lastAgg.startDate
  /\ lastAgg.data # InitialResult(variant)
  /\ prevAgg.data = lastAgg.data

(***************************************************************************)
(* C9: when the store operation of a request fails, the request is         *)
(* answered 500 InternalError after one store attempt; a failed record     *)
(* leaves no event in the store and a failed analytics answer carries no   *)
(* data.                                                                   *)
(***************************************************************************)
C9_StoreFailureIs500 ==
  resp.storeFailed
    => /\ resp.status = 500
       /\ resp.error = "InternalError"
       /\ resp.calls = 1
       /\ resp.data = NoData
       /\ resp.kind = "track" => resp.doc \notin store

C9_Witness ==
  /\ resp.storeFailed
  /\ resp.kind = "analytics"
  /\ resp.status = 500
  /\ RefEvents(store, resp.req.userId, "read", RefWindowStart(resp)) # {}

(***************************************************************************)
(* C10: no step removes or changes a stored event, and a step of an        *)
(* analytics request leaves the documents and the set of collections of    *)
(* the database unchanged.                                                 *)
(***************************************************************************)
C10_AggregateReadOnly ==
  [][ /\ store \subseteq store'
      /\ AnalyticsStep => (store' = store /\ collections' = collections) ]_vars

(***************************************************************************)
(* C11: whatever other requests are in flight, the step that answers a     *)
(* track request with a non-empty userId and action read or write, the     *)
(* store being available, answers success and adds exactly one event to    *)
(* the store, under an id no stored event has, and removes or replaces no  *)
(* stored event; the ids of the stored events are pairwise distinct.  So n *)
(* such calls, interleaved in any way, leave n more events, and two        *)
(* identical calls leave two.                                              *)
(***************************************************************************)
C11_ConcurrentRecords ==
  [][ /\ \A e, f \in store' : e.id = f.id => e = f
      /\ ( /\ Answers("track")
           /\ Handled(resp')
           /\ ~Falsy(resp'.req.userId)
           /\ resp'.req.action \in {"read", "write"}
           /\ ~resp'.storeFailed )
         => ( /\ resp'.status = TrackSuccessStatus(variant)
              /\ store \subseteq store'
              /\ Cardinality(store') = Cardinality(store) + 1
              /\ \A e \in store : e.id # resp'.doc.id ) ]_vars

(***************************************************************************)
(* C12: the step in which the initial connection fails ends the process    *)
(* with exit code 1, and once that connection has failed no request is     *)
(* accepted or answered; the process exits with code 1 in no other step,   *)
(* no step that answers a request with an error status (400, 404, 500)     *)
(* ends the process, and the only other exit is the shutdown on SIGTERM,   *)
(* with code 0.                                                            *)
(***************************************************************************)
ConnectionFails == connection = "connecting" /\ connection' = "failed"

C12_OnlyStartupFailureIsFatal ==
  [][ /\ ConnectionFails => exitCode' = 1
      /\ connection = "failed"
           => (nextRid' = nextRid /\ resp' = resp /\ inflight' = inflight)
      /\ (exitCode # 1 /\ exitCode' = 1) => ConnectionFails
      /\ (resp'.rid # resp.rid /\ resp'.status >= 400) => exitCode' = Running
      /\ (exitCode = Running /\ exitCode' # Running)
           => (ConnectionFails \/ exitCode' = 0) ]_vars

====
